---- MODULE Spec2Model ----
(***************************************************************************)
(* Tarcart API: the station listing with its lazy geocode cache-filler,    *)
(* the price aggregation of the listing, the grade canonicalisation and    *)
(* the price-submission normaliser and endpoint.                           *)
(***************************************************************************)
EXTENDS Integers, Sequences, FiniteSets, TLC

VARIABLES
  stations,    \* the stations table: id -> row
  apiKey,      \* process.env.GOOGLE_GEOCODE_KEY is set
  impl,        \* which copy of services/geocoding.ts the router is built with
  req,         \* the listing requests: request -> its progress
  lookups,     \* per station id: external geocoding lookups invoked so far
  writes,      \* per station id: coordinate UPDATEs that succeeded so far
  post,        \* the price-submission request: its payload and progress
  subTable,    \* the price_submissions rows inserted by the submission endpoints
  suggest,     \* the new-station request: its payload and progress
  priceTable,  \* the price_submissions rows the listing of src/stations.ts reads
  list,        \* the listing request of src/stations.ts: its progress
  canon        \* a grade label and its canonicalisations

geoVars == <<stations, apiKey, impl, req, lookups, writes>>

submitVars == <<post, subTable, suggest>>

listVars == <<priceTable, list>>

vars ==
  <<stations, apiKey, impl, req, lookups, writes, post, subTable, suggest,
    priceTable, list, canon>>

-----------------------------------------------------------------------------
(* Values *)

\* JavaScript and SQL values are tagged tuples, so that values of different
\* types can be compared
NULL == <<"null">>              \* JavaScript null, SQL NULL
UNDEF == <<"undefined">>        \* JavaScript undefined
Num(n) == <<"number", n>>       \* a finite number
Str(s) == <<"string", s>>       \* a string
Bool(b) == <<"boolean", b>>     \* a boolean
NONE == "none"                  \* nothing yet (model bookkeeping)

NStations == 2
MaxRequests == 2

StationIds == 1..NStations
Requests == 1..MaxRequests

\* name is the rank of the station's name in the database collation
Names == 1..NStations

\* (address, city, state) of a stations row
AddrShapes ==
  { <<NULL, Str(""), NULL>>,
    <<NULL, Str("Springfield"), Str("IL")>>,
    <<Str("1 Main St"), Str("Springfield"), Str("IL")>> }

\* (latitude, longitude) of a stations row
CoordShapes == { <<NULL, NULL>>, <<Num(10), NULL>>, <<Num(10), Num(20)>> }

\* where the geocoding service places the address of station id
Located(id) == [lat |-> Num(40 + id), lng |-> Num(-(88 + id))]

-----------------------------------------------------------------------------
(* The external geocoding service: what fetch(url) can deliver *)

Response(net, ok, json, status, results) ==
  [net |-> net, ok |-> ok, json |-> json, status |-> status, results |-> results]

Responses ==
  { Response(FALSE, FALSE, FALSE, "", "missing"),             \* fetch rejects
    Response(TRUE, FALSE, FALSE, "", "missing"),              \* HTTP error, body is not JSON
    Response(TRUE, FALSE, TRUE, "REQUEST_DENIED", "empty"),   \* HTTP error, JSON error body
    Response(TRUE, TRUE, FALSE, "", "missing"),               \* body is not JSON
    Response(TRUE, TRUE, TRUE, "ZERO_RESULTS", "empty"),
    Response(TRUE, TRUE, TRUE, "OK", "missing"),              \* no results field
    Response(TRUE, TRUE, TRUE, "OK", "empty"),
    Response(TRUE, TRUE, TRUE, "OK", "no_geometry"),          \* results[0] has no geometry
    Response(TRUE, TRUE, TRUE, "OK", "no_latlng"),            \* location has no lat/lng
    Response(TRUE, TRUE, TRUE, "OK", "location") }

GoodResponse == Response(TRUE, TRUE, TRUE, "OK", "location")

\* what an awaited geocodeAddress comes to: it throws, or yields null or { lat, lng }
Thrown == [kind |-> "thrown", lat |-> UNDEF, lng |-> UNDEF]
NoCoords == [kind |-> "null", lat |-> UNDEF, lng |-> UNDEF]
Coords(lat, lng) == [kind |-> "coords", lat |-> lat, lng |-> lng]

\* const loc = data.results[0].geometry.location; return { lat: loc.lat, lng: loc.lng }
FirstLocation(resp, loc) ==
  IF resp.results = "no_geometry" THEN Thrown
  ELSE IF resp.results = "no_latlng" THEN Coords(UNDEF, UNDEF)
  ELSE Coords(loc.lat, loc.lng)

\* geocodeAddress after fetch settles, first copy: one try/catch around fetch,
\* res.json() and the result extraction; res.ok is not looked at
GeocodeAddressV1(resp, loc) ==
  LET body ==
        IF ~resp.net \/ ~resp.json THEN Thrown
        ELSE IF resp.status # "OK" \/ resp.results \in {"missing", "empty"} THEN NoCoords
        ELSE FirstLocation(resp, loc)
  IN IF body = Thrown THEN NoCoords ELSE body

\* geocodeAddress after fetch settles, the other copies: no try/catch, res.ok checked
GeocodeAddressV2(resp, loc) ==
  IF ~resp.net THEN Thrown
  ELSE IF ~resp.ok THEN NoCoords
  ELSE IF ~resp.json THEN Thrown
  ELSE IF resp.status # "OK" \/ resp.results \in {"missing", "empty"} THEN NoCoords
  ELSE FirstLocation(resp, loc)

-----------------------------------------------------------------------------
(* ensureStationCoords *)

\* station.latitude != null && station.longitude != null
HasCoords(st) ==
  st.latitude \notin {NULL, UNDEF} /\ st.longitude \notin {NULL, UNDEF}

\* Boolean(x) of a string or null
Truthy(x) == x \notin {NULL, UNDEF, Str("")}

\* mutant: the parts are not filtered
AddressPartsUnfiltered(st) == <<st.address, st.city, st.state>>

\* [station.address, station.city, station.state].filter(Boolean)
AddressParts(st) == SelectSeq(<<st.address, st.city, st.state>>, Truthy)

\* { ...station, latitude: coords.lat, longitude: coords.lng }
Enriched(st, coords) ==
  [st EXCEPT !.latitude = coords.lat, !.longitude = coords.lng]

\* no station row (the result of a call that has not returned)
NoRow ==
  [id |-> 0, name |-> 0, is_home |-> Bool(FALSE), address |-> NULL, city |-> NULL,
   state |-> NULL, latitude |-> NULL, longitude |-> NULL]

\* one call of ensureStationCoords: where it stands, whether it invoked the
\* external lookup, res.ok of the response it reads, the coordinates it got,
\* how its UPDATE went, what it returned
Task(pc, called, coords, wrote, out) ==
  [pc |-> pc, called |-> called, ok |-> FALSE, coords |-> coords, wrote |-> wrote,
   out |-> out]

\* ensureStationCoords up to its first external await: the cache check, the
\* address parts, the credential check of geocodeAddress, then fetch(url)
EnsureBegin(st) ==
  IF HasCoords(st) THEN Task("returned", FALSE, NoCoords, NONE, st)
  ELSE IF Len(AddressParts(st)) = 0 THEN Task("returned", FALSE, NoCoords, NONE, st)
  ELSE IF ~apiKey THEN Task("returned", FALSE, NoCoords, NONE, st)
  ELSE Task("fetching", TRUE, NoCoords, NONE, NoRow)

\* after fetch(url) settles: a rejection makes geocodeAddress yield null (first
\* copy) or throw into the catch of ensureStationCoords (the other copies), and
\* the station is returned; otherwise the body is awaited: res.json(), or
\* res.text() in the other copies when res.ok is false
EnsureAfterFetch(st, net, ok) ==
  IF ~net THEN Task("returned", TRUE, NoCoords, NONE, st)
  ELSE [Task("reading", TRUE, NoCoords, NONE, NoRow) EXCEPT !.ok = ok]

\* first copy, after the body settles and geocodeAddress with it:
\* if (!coords) return station; otherwise db.query(UPDATE ...) is issued
EnsureAfterBodyV1(st, resp) ==
  LET coords == GeocodeAddressV1(resp, Located(st.id))
  IN IF coords = NoCoords THEN Task("returned", TRUE, NoCoords, NONE, st)
     ELSE Task("writing", TRUE, coords, NONE, NoRow)

\* the other copies: geocodeAddress is awaited inside the try, whose catch
\* returns the station
EnsureAfterBodyV2(st, resp) ==
  LET coords == GeocodeAddressV2(resp, Located(st.id))
  IN IF coords = Thrown THEN Task("returned", TRUE, NoCoords, NONE, st)
     ELSE IF coords = NoCoords THEN Task("returned", TRUE, NoCoords, NONE, st)
     ELSE Task("writing", TRUE, coords, NONE, NoRow)

\* first copy, after db.query settles: its own try/catch logs a failure, and
\* the enriched copy is returned either way
EnsureAfterWriteV1(st, coords, ok) ==
  Task("returned", TRUE, coords, IF ok THEN "ok" ELSE "failed", Enriched(st, coords))

\* the other copies: a failed db.query lands in the one catch, which returns
\* the station as it came in
EnsureAfterWriteV2(st, coords, ok) ==
  IF ok THEN Task("returned", TRUE, coords, "ok", Enriched(st, coords))
  ELSE Task("returned", TRUE, coords, "failed", st)

EnsureAfterBody(st, resp) ==
  IF impl = "v1" THEN EnsureAfterBodyV1(st, resp) ELSE EnsureAfterBodyV2(st, resp)

EnsureAfterWrite(st, coords, ok) ==
  IF impl = "v1" THEN EnsureAfterWriteV1(st, coords, ok)
  ELSE EnsureAfterWriteV2(st, coords, ok)

\* what the pg driver stores for a query parameter: undefined is sent as NULL
DbParam(v) == IF v = UNDEF THEN NULL ELSE v

\* UPDATE stations SET latitude = $1, longitude = $2 WHERE id = $3
UpdateCoords(tbl, id, coords) ==
  [tbl EXCEPT ![id].latitude = DbParam(coords.lat),
              ![id].longitude = DbParam(coords.lng)]

-----------------------------------------------------------------------------
(* POST /api/price-submissions: normaliseBody *)

\* In a submission payload a finite number is held exactly, as a count of
\* sixteenths: Num16(n) is n/16. Sixteenths and their products with 1000 are
\* exact in double arithmetic.
Sixteenth == 16
Num16(n) == <<"number", n>>
NaN == <<"NaN">>
Infinity == <<"Infinity">>

IsFiniteNumber(v) == v[1] = "number"

\* typeof v === "number"
IsNumber(v) == v[1] \in {"number", "NaN", "Infinity"}

\* typeof v === "string"
IsString(v) == v[1] = "string"

\* !x of a number, a string, null or undefined
Falsy(x) == x \in {NULL, UNDEF, Num(0), NaN, Str(<<>>)}

\* a ?? b
Coalesce(a, b) == IF a \in {NULL, UNDEF} THEN b ELSE a

\* a string is the sequence of its characters
Whitespace == {" ", "\t", "\n"}

RECURSIVE TrimStart(_)
TrimStart(cs) ==
  IF cs # <<>> /\ Head(cs) \in Whitespace THEN TrimStart(Tail(cs)) ELSE cs

RECURSIVE TrimEnd(_)
TrimEnd(cs) ==
  IF cs # <<>> /\ cs[Len(cs)] \in Whitespace THEN TrimEnd(SubSeq(cs, 1, Len(cs) - 1))
  ELSE cs

\* s.trim()
Trim(cs) == TrimEnd(TrimStart(cs))

Digit(d) == <<"0", "1", "2", "3", "4", "5", "6", "7", "8", "9">>[d + 1]

RECURSIVE Digits(_)
Digits(k) == IF k < 10 THEN <<Digit(k)>> ELSE Digits(k \div 10) \o <<Digit(k % 10)>>

\* f written with width decimal digits, zeros in front
RECURSIVE Padded(_, _)
Padded(f, width) ==
  IF width = 0 THEN <<>> ELSE Padded(f \div 10, width - 1) \o <<Digit(f % 10)>>

RECURSIVE StripZeros(_)
StripZeros(cs) ==
  IF cs # <<>> /\ cs[Len(cs)] = "0" THEN StripZeros(SubSeq(cs, 1, Len(cs) - 1)) ELSE cs

\* the digits after the decimal point of f/10^width, trailing zeros dropped
Fraction(f, width) == StripZeros(Padded(f, width))

\* v.toString() of a string or a number
toString(v) ==
  IF IsString(v) THEN v[2]
  ELSE IF v = NaN THEN <<"N", "a", "N">>
  ELSE IF v = Infinity THEN <<"I", "n", "f", "i", "n", "i", "t", "y">>
  ELSE LET n == v[2]
           a == IF n < 0 THEN -n ELSE n
           whole == a \div Sixteenth
           frac == (a % Sixteenth) * (10000 \div Sixteenth)
       IN (IF n < 0 THEN <<"-">> ELSE <<>>) \o Digits(whole)
            \o (IF frac = 0 THEN <<>> ELSE <<".">> \o Fraction(frac, 4))

MillsPerDollar == 1000

\* Math.round(v * 1000): v * 1000 is (125 n)/2 for v = n/16, and Math.round
\* is floor(x + 1/2)
MathRoundTimes1000(v) ==
  IF ~IsFiniteNumber(v) THEN v
  ELSE LET twice == v[2] * ((2 * MillsPerDollar) \div Sixteenth)
       IN Num16(Sixteenth * ((twice + 1) \div 2))

DigitChars == {"0", "1", "2", "3", "4", "5", "6", "7", "8", "9"}

\* the digits of the radixes, lower and upper case
LowerDigits ==
  <<"0", "1", "2", "3", "4", "5", "6", "7", "8", "9", "a", "b", "c", "d", "e", "f">>
UpperDigits ==
  <<"0", "1", "2", "3", "4", "5", "6", "7", "8", "9", "A", "B", "C", "D", "E", "F">>

IsDigitOf(c, radix) == \E d \in 1..radix : LowerDigits[d] = c \/ UpperDigits[d] = c

DigitValue(c) == (CHOOSE d \in 1..Len(LowerDigits) : LowerDigits[d] = c \/ UpperDigits[d] = c) - 1

RECURSIVE RadixValue(_, _)
RadixValue(cs, radix) ==
  IF cs = <<>> THEN 0
  ELSE radix * RadixValue(SubSeq(cs, 1, Len(cs) - 1), radix) + DigitValue(cs[Len(cs)])

AllDigits(cs, radix) == cs # <<>> /\ \A k \in 1..Len(cs) : IsDigitOf(cs[k], radix)

RECURSIVE TimesPowerOfTen(_, _)
TimesPowerOfTen(m, e) == IF m = 0 \/ e = 0 THEN m ELSE TimesPowerOfTen(10 * m, e - 1)

\* the radix a 0x, 0o or 0b prefix announces, 0 when t has no such prefix
PrefixRadix(t) ==
  IF Len(t) < 2 \/ t[1] # "0" THEN 0
  ELSE IF t[2] \in {"x", "X"} THEN 16
  ELSE IF t[2] \in {"o", "O"} THEN 8
  ELSE IF t[2] \in {"b", "B"} THEN 2
  ELSE 0

\* where the exponent mark of t stands, 0 when t has none
ExponentMark(t) ==
  IF \E k \in 1..Len(t) : t[k] \in {"e", "E"}
  THEN CHOOSE k \in 1..Len(t) : t[k] \in {"e", "E"} /\ \A j \in 1..(k - 1) : t[j] \notin {"e", "E"}
  ELSE 0

\* Number(s) of a string of blanks, decimal digits and letters whose value is
\* below 2^27: <<"int", n>>, NaN or Infinity. The trimmed string is empty (0),
\* Infinity, a 0x/0o/0b literal, or decimal digits with an optional exponent
\* of decimal digits; anything else is NaN.
NumberValue(cs) ==
  LET t == Trim(cs)
      radix == PrefixRadix(t)
      mark == ExponentMark(t)
  IN IF t = <<>> THEN <<"int", 0>>
     ELSE IF t = <<"I", "n", "f", "i", "n", "i", "t", "y">> THEN Infinity
     ELSE IF radix # 0
     THEN IF AllDigits(SubSeq(t, 3, Len(t)), radix)
          THEN <<"int", RadixValue(SubSeq(t, 3, Len(t)), radix)>>
          ELSE NaN
     ELSE IF AllDigits(t, 10) THEN <<"int", RadixValue(t, 10)>>
     ELSE IF mark # 0 /\ AllDigits(SubSeq(t, 1, mark - 1), 10)
                      /\ AllDigits(SubSeq(t, mark + 1, Len(t)), 10)
     THEN <<"int", TimesPowerOfTen(RadixValue(SubSeq(t, 1, mark - 1), 10),
                                  RadixValue(SubSeq(t, mark + 1, Len(t)), 10))>>
     ELSE NaN

\* Number(s) where numbers are held in sixteenths
ToNumber(cs) ==
  LET v == NumberValue(cs)
  IN IF v[1] = "int" THEN Num16(Sixteenth * v[2]) ELSE v

\* stationIdRaw to stationId
StationId(raw) ==
  IF IsNumber(raw) THEN raw
  ELSE IF IsString(raw) /\ Trim(raw[2]) # <<>> THEN ToNumber(raw[2])
  ELSE NULL

\* body.station_id ?? body.stationId
StationIdRaw(body) == Coalesce(body.station_id, body.stationId)

\* body.station_name ?? body.stationName ?? ""
StationNameRaw(body) == Coalesce(body.station_name, Coalesce(body.stationName, Str(<<>>)))

\* body.station_address ?? body.stationAddress ?? ""
StationAddressRaw(body) ==
  Coalesce(body.station_address, Coalesce(body.stationAddress, Str(<<>>)))

\* s.trim() || null
TrimOrNull(cs) == IF Trim(cs) = <<>> THEN NULL ELSE Str(Trim(cs))

\* .trim() is called on the station name and address as they are: on a value
\* that is no string it is not a function, and normaliseBody throws TypeError
normaliseBodyThrows(body) ==
  ~IsString(StationNameRaw(body)) \/ ~IsString(StationAddressRaw(body))

\* the row of a grade and a price, with the fields shared by all rows of the body
Row(body, stationId, grade, priceMills) ==
  [stationId |-> stationId,
   stationName |-> TrimOrNull(StationNameRaw(body)[2]),
   stationAddress |-> TrimOrNull(StationAddressRaw(body)[2]),
   grade |-> grade,
   priceMills |-> priceMills,
   notes |-> TrimOrNull(toString(Coalesce(body.notes, Str(<<>>)))),
   submitterName |->
     TrimOrNull(toString(Coalesce(body.submitter_name,
                                  Coalesce(body.submitterName, Str(<<>>)))))]

\* priceMills of one submissions[] entry; NULL when neither field is a number
EntryMills(sub) ==
  IF IsNumber(sub.price_cents) THEN sub.price_cents
  ELSE IF IsNumber(sub.price) THEN MathRoundTimes1000(sub.price)
  ELSE NULL

\* mutant: the loop ends at the first entry it cannot use
RECURSIVE SubmissionRowsBreak(_, _, _)
SubmissionRowsBreak(subs, body, stationId) ==
  IF subs = <<>> THEN <<>>
  ELSE LET sub == Head(subs)
           grade == IF sub.null THEN <<>>
                    ELSE Trim(toString(Coalesce(sub.grade, Coalesce(body.grade, Str(<<>>)))))
           priceMills == IF sub.null THEN NULL ELSE EntryMills(sub)
       IN IF sub.null \/ grade = <<>> \/ priceMills = NULL \/ ~IsFiniteNumber(priceMills)
          THEN <<>>
          ELSE <<Row(body, stationId, grade, priceMills)>>
                 \o SubmissionRowsBreak(Tail(subs), body, stationId)

\* for (const sub of body.submissions) { ... rows.push(...) }
RECURSIVE SubmissionRows(_, _, _)
SubmissionRows(subs, body, stationId) ==
  IF subs = <<>> THEN <<>>
  ELSE LET sub == Head(subs)
           rest == SubmissionRows(Tail(subs), body, stationId)
       IN IF sub.null THEN rest
          ELSE LET grade == Trim(toString(Coalesce(sub.grade, Coalesce(body.grade, Str(<<>>)))))
                   priceMills == EntryMills(sub)
               IN IF grade = <<>> THEN rest
                  ELSE IF priceMills = NULL \/ ~IsFiniteNumber(priceMills) THEN rest
                  ELSE <<Row(body, stationId, grade, priceMills)>> \o rest

\* the legacy single-grade body
LegacyRows(body, stationId) ==
  LET legacyGrade == Trim(toString(Coalesce(body.grade, Str(<<>>))))
      legacyPriceCents == IF IsNumber(body.price_cents) THEN body.price_cents ELSE NULL
      legacyPrice == IF IsNumber(body.price) THEN body.price ELSE NULL
      legacyMills == IF legacyPriceCents # NULL THEN legacyPriceCents
                     ELSE IF legacyPrice # NULL THEN MathRoundTimes1000(legacyPrice)
                     ELSE NULL
  IN IF legacyGrade # <<>> /\ legacyMills # NULL /\ IsFiniteNumber(legacyMills)
     THEN <<Row(body, stationId, legacyGrade, legacyMills)>>
     ELSE <<>>

\* Array.isArray(body.submissions) && body.submissions.length > 0
HasSubmissions(body) == body.submissions[1] = "array" /\ Len(body.submissions[2]) > 0

\* the rows of a body on which normaliseBody does not throw
normaliseBody(body) ==
  LET stationId == StationId(StationIdRaw(body))
  IN IF HasSubmissions(body) THEN SubmissionRows(body.submissions[2], body, stationId)
     ELSE LegacyRows(body, stationId)

-----------------------------------------------------------------------------
(* POST /api/price-submissions: the handler *)

MaxEntries == 2

Chars87 == <<" ", "8", "7", " ">>

EntryGrades == {UNDEF, Str(<<" ">>), Str(Chars87)}
BodyGrades == {UNDEF, Num16(93 * Sixteenth)}
EntryMillsValues == {UNDEF, NaN, Num16(4799 * Sixteenth)}
\* price in dollars: absent, the string "4.5", -1/16, 1/16, 2/16, Infinity
EntryDollars == {UNDEF, Str(<<"4", ".", "5">>), Num16(-1), Num16(1), Num16(2), Infinity}
StationIdRaws == {UNDEF, Str(<<"7">>)}

\* an entry of submissions[]: an object with its fields, or null
Entry(grade, priceCents, price) ==
  [null |-> FALSE, grade |-> grade, price_cents |-> priceCents, price |-> price]

NullEntry == [null |-> TRUE, grade |-> UNDEF, price_cents |-> UNDEF, price |-> UNDEF]

Entries ==
  {NullEntry}
  \cup { Entry(g, pc, pr) : g \in EntryGrades, pc \in EntryMillsValues, pr \in EntryDollars }

\* body.submissions: an array, or absent
Array(seq) == <<"array", seq>>

\* the arrays of up to max entries
EntrySeqs(max) == UNION { [1..n -> Entries] : n \in 1..max }

\* req.body with station_id, grade, price_cents, price and submissions as
\* given and no other field
Body(stationId, grade, priceCents, price, subs) ==
  [station_id |-> stationId, stationId |-> UNDEF, station_name |-> UNDEF,
   stationName |-> UNDEF, station_address |-> UNDEF, stationAddress |-> UNDEF,
   notes |-> UNDEF, submitter_name |-> UNDEF, submitterName |-> UNDEF,
   grade |-> grade, price_cents |-> priceCents, price |-> price, submissions |-> subs]

\* the payloads: the multi-grade shape, and the legacy shape with no array or
\* an empty one, with arrays of up to max entries
Payloads(max) ==
  { Body(sid, g, UNDEF, UNDEF, subs) :
      sid \in StationIdRaws, g \in BodyGrades, subs \in { Array(q) : q \in EntrySeqs(max) } }
  \cup
  { Body(UNDEF, g, pc, pr, subs) :
      g \in EntryGrades \cup BodyGrades, pc \in EntryMillsValues, pr \in EntryDollars,
      subs \in {UNDEF, Array(<<>>)} }

NoBody == Body(UNDEF, UNDEF, UNDEF, UNDEF, UNDEF)

IdlePost ==
  [pc |-> "idle", body |-> NoBody, rows |-> <<>>, ids |-> <<>>, status |-> 0,
   reply |-> <<>>]

\* req.ip of the one client of the model
RequestIp == Str(<<"i", "p">>)

\* the row an INSERT of either endpoint adds, under the id the table gives it
Inserted(id, stationId, stationName, stationAddress, grade, priceMills, notes, submitterName) ==
  [id |-> id, station_id |-> stationId, station_name |-> stationName,
   station_address |-> stationAddress, grade |-> grade, price_cents |-> priceMills,
   notes |-> notes, submitter_name |-> submitterName, submitter_ip |-> RequestIp]

\* req.body of POST /new-station with the fields the handler destructures
Suggestion(name, brand, address, city, notes) ==
  [name |-> name, brand |-> brand, address |-> address, city |-> city, state |-> UNDEF,
   postal_code |-> UNDEF, notes |-> notes, source |-> UNDEF, submitter_name |-> UNDEF,
   submitterName |-> UNDEF]

NoSuggestion == Suggestion(UNDEF, UNDEF, UNDEF, UNDEF, UNDEF)

IdleSuggest == [pc |-> "idle", body |-> NoSuggestion, status |-> 0, id |-> 0]

SubmitIdle ==
  /\ post = IdlePost
  /\ subTable = <<>>
  /\ suggest = IdleSuggest

\* mutant: always { ids }
CreatedIds(ids) == <<"ids", ids>>

\* the 201 body: { id: ids[0] } for one row, { ids } otherwise
Created(ids) == IF Len(ids) = 1 THEN <<"id", ids[1]>> ELSE <<"ids", ids>>

\* the handler up to its first INSERT: normaliseBody, and the 400 when it
\* returns no rows
\* returns no rows, and the 500 of the handler's catch when it throws
PostArrives(body) ==
  /\ post.pc = "idle"
  /\ post' = IF normaliseBodyThrows(body)
             THEN [IdlePost EXCEPT !.pc = "responded", !.body = body, !.status = 500]
             ELSE IF Len(normaliseBody(body)) = 0
             THEN [IdlePost EXCEPT !.pc = "responded", !.body = body, !.status = 400]
             ELSE [IdlePost EXCEPT !.pc = "inserting", !.body = body,
                                   !.rows = normaliseBody(body)]
  /\ UNCHANGED <<subTable, suggest>>
  /\ UNCHANGED <<geoVars, listVars, canon>>

\* the INSERT of the next row settles: RETURNING id is pushed; after the last
\* row the handler answers 201 with { id } or { ids }
InsertSettles ==
  /\ post.pc = "inserting"
  /\ LET row == post.rows[Len(post.ids) + 1]
         id == Len(subTable) + 1
         ids == Append(post.ids, id)
     IN /\ subTable' = Append(subTable,
                              Inserted(id, Coalesce(row.stationId, NULL), row.stationName,
                                       row.stationAddress, row.grade, row.priceMills,
                                       row.notes, row.submitterName))
        /\ post' = IF Len(ids) < Len(post.rows) THEN [post EXCEPT !.ids = ids]
                   ELSE [post EXCEPT !.pc = "responded", !.ids = ids, !.status = 201,
                                     !.reply = Created(ids)]
  /\ UNCHANGED suggest
  /\ UNCHANGED <<geoVars, listVars, canon>>

\* the INSERT of the next row rejects: the handler's catch answers 500
InsertFails ==
  /\ post.pc = "inserting"
  /\ post' = [post EXCEPT !.pc = "responded", !.status = 500]
  /\ UNCHANGED <<subTable, suggest>>
  /\ UNCHANGED <<geoVars, listVars, canon>>

\* (v ?? "").toString().trim()
TrimmedText(v) == Trim(toString(Coalesce(v, Str(<<>>))))

\* parts.join(", ")
RECURSIVE Join(_)
Join(parts) ==
  IF parts = <<>> THEN <<>>
  ELSE IF Len(parts) = 1 THEN parts[1]
  ELSE parts[1] \o <<",", " ">> \o Join(Tail(parts))

\* [ ... || null ].filter(Boolean) over the trimmed texts
RECURSIVE NonEmpty(_)
NonEmpty(texts) ==
  IF texts = <<>> THEN <<>>
  ELSE (IF Head(texts) = <<>> THEN <<>> ELSE <<Head(texts)>>) \o NonEmpty(Tail(texts))

\* parts.join(", ") || null over address, city, state and postal_code
SuggestedAddress(body) ==
  LET parts == NonEmpty(<<TrimmedText(body.address), TrimmedText(body.city),
                          TrimmedText(body.state), TrimmedText(body.postal_code)>>)
  IN IF Join(parts) = <<>> THEN NULL ELSE Str(Join(parts))

\* if (v) combinedNotes = combinedNotes ? `${combinedNotes} | ${label}${v}` : `${label}${v}`
WithPart(notes, label, v) ==
  IF Falsy(v) THEN notes
  ELSE IF notes = <<>> THEN label \o toString(v)
  ELSE notes \o <<" ", "|", " ">> \o label \o toString(v)

\* combinedNotes || null
CombinedNotes(body) ==
  LET combined ==
        WithPart(WithPart(TrimmedText(body.notes),
                          <<"B", "r", "a", "n", "d", ":", " ">>, body.brand),
                 <<"S", "o", "u", "r", "c", "e", ":", " ">>, body.source)
  IN IF combined = <<>> THEN NULL ELSE Str(combined)

\* the suggestions: with no name, a blank one, a name alone, and a name with
\* brand, address, city and notes
SuggestBodies ==
  { NoSuggestion,
    Suggestion(Str(<<" ">>), UNDEF, UNDEF, UNDEF, UNDEF),
    Suggestion(Str(<<" ", "A">>), UNDEF, UNDEF, UNDEF, UNDEF),
    Suggestion(Str(<<"A">>), Str(<<"B">>), Str(<<"1">>), Str(<<"C", " ">>), Str(<<"n">>)) }

\* POST /new-station up to its INSERT: the 400 when the trimmed name is empty
SuggestArrives(body) ==
  /\ suggest.pc = "idle"
  /\ suggest' = IF TrimmedText(body.name) = <<>>
                THEN [IdleSuggest EXCEPT !.pc = "responded", !.body = body, !.status = 400]
                ELSE [IdleSuggest EXCEPT !.pc = "inserting", !.body = body]
  /\ UNCHANGED <<post, subTable>>
  /\ UNCHANGED <<geoVars, listVars, canon>>

\* the INSERT of the suggestion settles: a row with no station, grade or price,
\* and 201 with { id }
SuggestInsertSettles ==
  /\ suggest.pc = "inserting"
  /\ LET id == Len(subTable) + 1
         body == suggest.body
     IN /\ subTable' = Append(subTable,
                              Inserted(id, NULL, Str(TrimmedText(body.name)),
                                       SuggestedAddress(body), NULL, NULL,
                                       CombinedNotes(body),
                                       TrimOrNull(toString(Coalesce(body.submitter_name,
                                         Coalesce(body.submitterName, Str(<<>>)))))))
        /\ suggest' = [suggest EXCEPT !.pc = "responded", !.status = 201, !.id = id]
  /\ UNCHANGED post
  /\ UNCHANGED <<geoVars, listVars, canon>>

\* the INSERT of the suggestion rejects: the handler's catch answers 500
SuggestInsertFails ==
  /\ suggest.pc = "inserting"
  /\ suggest' = [suggest EXCEPT !.pc = "responded", !.status = 500]
  /\ UNCHANGED <<post, subTable>>
  /\ UNCHANGED <<geoVars, listVars, canon>>

\* bodies with the camel-case station identifier, with station name and
\* address as strings, numbers and null, and with notes and submitter name
NamedPayloads ==
  LET base == Body(UNDEF, Num16(93 * Sixteenth), Num16(4799 * Sixteenth), UNDEF, UNDEF)
  IN { [base EXCEPT !.stationId = Str(<<"7">>)],
       [base EXCEPT !.station_id = NULL, !.stationId = Num16(7 * Sixteenth)],
       [base EXCEPT !.station_id = Str(<<>>), !.stationId = Str(<<"7">>)],
       [base EXCEPT !.station_name = Str(<<" ", "A", " ">>), !.stationAddress = Str(<<"1">>)],
       [base EXCEPT !.station_name = NULL, !.stationName = Str(<<"A">>),
                    !.station_address = Str(<<" ">>)],
       [base EXCEPT !.station_name = Num16(Sixteenth)],
       [base EXCEPT !.stationAddress = Num16(Sixteenth)],
       [base EXCEPT !.station_name = Num16(Sixteenth), !.grade = UNDEF],
       [base EXCEPT !.station_address = Num16(0),
                    !.submissions = Array(<<Entry(Str(Chars87), UNDEF, Num16(1))>>)],
       [base EXCEPT !.notes = Num16(1), !.submitterName = Str(<<" ", "A">>)],
       [base EXCEPT !.notes = Str(<<" ">>), !.submitter_name = Num16(0),
                    !.submitterName = Str(<<"A">>)] }

SubmitNext ==
  \/ post.pc = "idle" /\ \E body \in Payloads(MaxEntries) \cup NamedPayloads : PostArrives(body)
  \/ InsertSettles
  \/ InsertFails

\* the payloads of the submission endpoint when both endpoints write the
\* table. The entries of the arrays: null, a usable grade with a negative price
\* in dollars, mills with the payload's grade, and NaN mills beside a price
TablePayloads(max) ==
  { Body(sid, g, UNDEF, UNDEF, Array(q)) :
      sid \in StationIdRaws, g \in BodyGrades,
      q \in UNION { [1..n -> { NullEntry,
                               Entry(Str(Chars87), UNDEF, Num16(-1)),
                               Entry(UNDEF, Num16(4799 * Sixteenth), UNDEF),
                               Entry(Str(Chars87), NaN, Num16(1)) }] : n \in 1..max } }
  \cup
  { Body(UNDEF, g, pc, pr, subs) :
      g \in EntryGrades \cup BodyGrades, pc \in EntryMillsValues, pr \in EntryDollars,
      subs \in {UNDEF, Array(<<>>)} }
  \cup NamedPayloads

\* both endpoints of the router, their requests overlapping
TableNext ==
  \/ post.pc = "idle" /\ \E body \in TablePayloads(MaxEntries) : PostArrives(body)
  \/ InsertSettles
  \/ InsertFails
  \/ \E body \in SuggestBodies : SuggestArrives(body)
  \/ SuggestInsertSettles
  \/ SuggestInsertFails

-----------------------------------------------------------------------------
(* src/stations.ts: strings, objects and the grade mapping *)

\* the characters of the labels, ascending by code unit
Alphabet ==
  <<" ", "0", "1", "2", "3", "4", "5", "6", "7", "8", "9",
    "A", "B", "C", "D", "E", "F", "G", "H", "I", "J", "K", "L", "M",
    "N", "O", "P", "Q", "R", "S", "T", "U", "V", "W", "X", "Y", "Z",
    "a", "b", "c", "d", "e", "f", "g", "h", "i", "j", "k", "l", "m",
    "n", "o", "p", "q", "r", "s", "t", "u", "v", "w", "x", "y", "z">>

Code(c) == CHOOSE i \in 1..Len(Alphabet) : Alphabet[i] = c

IsUpper(c) == Code(c) \in Code("A")..Code("Z")

\* String.prototype.toLowerCase
toLowerCase(cs) ==
  [k \in 1..Len(cs) |->
     IF IsUpper(cs[k]) THEN Alphabet[Code(cs[k]) + (Code("a") - Code("A"))] ELSE cs[k]]

\* the labels of the grade mapping
L87 == <<"8", "7">>
L89 == <<"8", "9">>
L93 == <<"9", "3">>
LDiesel == <<"d", "i", "e", "s", "e", "l">>
LD == <<"d">>
LRegular == <<"r", "e", "g", "u", "l", "a", "r">>
LUnleaded == <<"u", "n", "l", "e", "a", "d", "e", "d">>
LMidgrade == <<"m", "i", "d", "g", "r", "a", "d", "e">>
LPremium == <<"p", "r", "e", "m", "i", "u", "m">>
LSupreme == <<"s", "u", "p", "r", "e", "m", "e">>

\* mutant: diesel is filed under "d"
normalizedKeyDieselAsD(gradeRaw) ==
  LET g == toLowerCase(gradeRaw)
  IN IF g \in {LRegular, L87, LUnleaded} THEN L87
     ELSE IF g \in {LMidgrade, L89} THEN L89
     ELSE IF g \in {LPremium, L93, LSupreme} THEN L93
     ELSE IF g \in {LDiesel, LD} THEN LD
     ELSE g

\* the key of normalized that the mapping loop assigns for gradeRaw
normalizedKey(gradeRaw) ==
  LET g == toLowerCase(gradeRaw)
  IN IF g \in {LRegular, L87, LUnleaded} THEN L87
     ELSE IF g \in {LMidgrade, L89} THEN L89
     ELSE IF g \in {LPremium, L93, LSupreme} THEN L93
     ELSE IF g \in {LDiesel, LD} THEN LDiesel
     ELSE g

\* A JavaScript object is the sequence of its <<key, value>> properties in the
\* order they were created.
EmptyObject == <<>>

HasKey(obj, key) == \E k \in 1..Len(obj) : obj[k][1] = key

\* obj[key], for a key the object has
Get(obj, key) == obj[CHOOSE k \in 1..Len(obj) : obj[k][1] = key][2]

\* obj[key] = value: an existing property keeps its place
Set(obj, key, value) ==
  IF HasKey(obj, key)
  THEN [k \in 1..Len(obj) |-> IF obj[k][1] = key THEN <<key, value>> ELSE obj[k]]
  ELSE Append(obj, <<key, value>>)

\* text a sorts before text b, by code unit
RECURSIVE TextBefore(_, _)
TextBefore(a, b) ==
  IF Len(b) = 0 THEN FALSE
  ELSE IF Len(a) = 0 THEN TRUE
  ELSE IF a[1] # b[1] THEN Code(a[1]) < Code(b[1])
  ELSE TextBefore(Tail(a), Tail(b))

\* the largest array index, 2^32 - 2
MaxArrayIndex == <<"4", "2", "9", "4", "9", "6", "7", "2", "9", "4">>

\* the key is a canonical array index: "0", or digits with no leading zero,
\* up to 2^32 - 2
IsArrayIndex(cs) ==
  /\ Len(cs) \in 1..Len(MaxArrayIndex)
  /\ \A k \in 1..Len(cs) : Code(cs[k]) \in Code("0")..Code("9")
  /\ Len(cs) > 1 => cs[1] # "0"
  /\ Len(cs) = Len(MaxArrayIndex) => ~TextBefore(MaxArrayIndex, cs)

\* array index a is the smaller number
IndexBefore(a, b) == Len(a) < Len(b) \/ (Len(a) = Len(b) /\ TextBefore(a, b))

\* Object.entries: array-index keys ascending, then the other keys in creation order
ObjectEntries(obj) ==
  LET idx == { k \in 1..Len(obj) : IsArrayIndex(obj[k][1]) }
      EntryBefore(a, b) ==
        IF a \in idx /\ b \in idx THEN IndexBefore(obj[a][1], obj[b][1])
        ELSE IF a \in idx THEN TRUE
        ELSE IF b \in idx THEN FALSE
        ELSE a < b
      ord == CHOOSE p \in [1..Len(obj) -> 1..Len(obj)] :
               /\ \A a, b \in 1..Len(obj) : a # b => p[a] # p[b]
               /\ \A a, b \in 1..Len(obj) : a < b => EntryBefore(p[a], p[b])
  IN [k \in 1..Len(obj) |-> obj[ord[k]]]

RECURSIVE NormalizeFrom(_, _, _)
NormalizeFrom(entries, k, normalized) ==
  IF k > Len(entries) THEN normalized
  ELSE NormalizeFrom(entries, k + 1,
                     Set(normalized, normalizedKey(entries[k][1]), entries[k][2]))

\* the mapping loop over Object.entries(stationPrices): a later entry of the
\* same bucket overwrites an earlier one
Normalized(stationPrices) == NormalizeFrom(ObjectEntries(stationPrices), 1, EmptyObject)

-----------------------------------------------------------------------------
(* src/stations.ts: the DISTINCT ON query and pricesByStation *)

MaxSubs == 3

\* the raw grades of the rows; they order the same way by code unit and in a
\* linguistic collation
RawGrades == { L87, <<"R", "e", "g", "u", "l", "a", "r">>, LUnleaded }

\* (status, reviewed_at) of a row
Reviews ==
  { <<"approved", NULL>>, <<"approved", Num(1)>>, <<"approved", Num(2)>>,
    <<"pending", NULL>>, <<"rejected", Num(2)>> }

SubmissionRow(sid, grade, price, review) ==
  [station_id |-> sid, grade |-> grade, price_cents |-> price,
   status |-> review[1], reviewed_at |-> review[2]]

\* the rows without created_at and price: complete rows of station 1 of any
\* status, approved rows of the other stations, and approved rows that lack a
\* station, a grade or a price
RowShapes ==
  { SubmissionRow(Num(1), Str(g), Num(0), rv) : g \in RawGrades, rv \in Reviews }
  \cup { SubmissionRow(Num(s), Str(g), Num(0), <<"approved", Num(1)>>) :
           s \in StationIds \ {1}, g \in RawGrades }
  \cup { SubmissionRow(NULL, Str(L87), Num(0), <<"approved", Num(2)>>),
         SubmissionRow(Num(1), NULL, Num(0), <<"approved", Num(2)>>),
         SubmissionRow(Num(1), Str(L87), NULL, <<"approved", Num(2)>>) }

\* the price of the k-th row: every row has its own
PriceOf(k) == 3000 + k

\* the tables of up to max rows: row k was created at time k
PriceTables(max) ==
  { [k \in DOMAIN sh |->
       [station_id |-> sh[k].station_id, grade |-> sh[k].grade,
        price_cents |-> IF sh[k].price_cents = NULL THEN NULL ELSE Num(PriceOf(k)),
        status |-> sh[k].status, reviewed_at |-> sh[k].reviewed_at,
        created_at |-> Num(k)]] :
      sh \in UNION { [1..n -> RowShapes] : n \in 0..max } }

\* WHERE status = 'approved' AND station_id IS NOT NULL AND grade IS NOT NULL
\*   AND price_cents IS NOT NULL
Approved(row) ==
  /\ row.status = "approved"
  /\ row.station_id # NULL
  /\ row.grade # NULL
  /\ row.price_cents # NULL

\* reviewed_at DESC NULLS LAST, created_at DESC: a sorts before b
NewerThan(a, b) ==
  IF a.reviewed_at # b.reviewed_at
  THEN IF b.reviewed_at = NULL THEN TRUE
       ELSE IF a.reviewed_at = NULL THEN FALSE
       ELSE a.reviewed_at[2] > b.reviewed_at[2]
  ELSE a.created_at[2] > b.created_at[2]

\* ORDER BY station_id, grade, reviewed_at DESC NULLS LAST, created_at DESC
QueryOrder(a, b) ==
  IF a.station_id # b.station_id THEN a.station_id[2] < b.station_id[2]
  ELSE IF a.grade # b.grade THEN TextBefore(a.grade[2], b.grade[2])
  ELSE NewerThan(a, b)

\* the set S as the sequence ordered by Before
Sorted(S, Before(_, _)) ==
  CHOOSE s \in [1..Cardinality(S) -> S] :
    /\ \A a, b \in 1..Cardinality(S) : a # b => s[a] # s[b]
    /\ \A a, b \in 1..Cardinality(S) : a < b => Before(s[a], s[b])

\* SELECT DISTINCT ON (station_id, grade) station_id, grade, price_cents ...:
\* the first row of each (station_id, grade) group in the query's order
PriceRows(tbl) ==
  LET approved == { tbl[k] : k \in { j \in 1..Len(tbl) : Approved(tbl[j]) } }
      first == { r \in approved :
                   \A o \in approved :
                     o.station_id = r.station_id /\ o.grade = r.grade /\ o # r
                       => QueryOrder(r, o) }
      kept == Sorted(first, QueryOrder)
  IN [k \in 1..Len(kept) |->
        [station_id |-> kept[k].station_id, grade |-> kept[k].grade,
         price_cents |-> kept[k].price_cents]]

\* Number(x) of a number or a string, in units
NumberOf(x) ==
  IF IsString(x)
  THEN LET v == NumberValue(x[2]) IN IF v[1] = "int" THEN Num(v[2]) ELSE v
  ELSE x

\* the property key of a station id: String(id) of a whole number, the string
\* itself of a string
PropertyKey(v) ==
  IF IsString(v) THEN v[2]
  ELSE IF v[2] < 0 THEN <<"-">> \o Digits(-v[2])
  ELSE Digits(v[2])

RECURSIVE PricesFrom(_, _, _)
PricesFrom(priceRows, k, pricesByStation) ==
  IF k > Len(priceRows) THEN pricesByStation
  ELSE LET row == priceRows[k]
           sid == PropertyKey(row.station_id)
           created == IF HasKey(pricesByStation, sid) THEN pricesByStation
                      ELSE Set(pricesByStation, sid, EmptyObject)
       IN IF Falsy(row.station_id) THEN PricesFrom(priceRows, k + 1, pricesByStation)
          ELSE IF Falsy(row.grade) THEN PricesFrom(priceRows, k + 1, created)
          ELSE PricesFrom(priceRows, k + 1,
                 Set(created, sid,
                     Set(Get(created, sid), toLowerCase(row.grade[2]),
                         NumberOf(row.price_cents))))

\* the loop over priceRows that builds { [stationId]: { [grade]: price_cents } }
PricesByStation(priceRows) == PricesFrom(priceRows, 1, EmptyObject)

\* pricesByStation[sid] || {}
StationPrices(pricesByStation, sid) ==
  IF HasKey(pricesByStation, PropertyKey(sid)) THEN Get(pricesByStation, PropertyKey(sid))
  ELSE EmptyObject

-----------------------------------------------------------------------------
(* src/stations.ts: GET /api/stations with prices and geocoding *)

\* station.prices_cents = normalized
WithPrices(st, normalized) ==
  [f \in DOMAIN st \cup {"prices_cents"} |->
     IF f = "prices_cents" THEN normalized ELSE st[f]]

\* the guard of the geocoding block: neither coordinate, and all of address,
\* city and state
NeedsGeocode(st) ==
  /\ st.latitude \in {NULL, UNDEF}
  /\ st.longitude \in {NULL, UNDEF}
  /\ Truthy(st.address)
  /\ Truthy(st.city)
  /\ Truthy(st.state)

IdleList == [pc |-> "idle", rows |-> <<>>, logged |-> <<>>, status |-> 0, body |-> <<>>]

ListIdle ==
  /\ priceTable = <<>>
  /\ list = IdleList

\* the loop over the stations from the i-th on, up to res.json(stations):
\* prices are attached to each station. The module ./services/geocoding
\* exports createGeocoder alone, so the imported geocodeAddress is undefined:
\* for a station that passes the guard the call throws TypeError before any
\* await, the block's catch logs the station, and the loop goes on. No lookup
\* is made and no UPDATE is issued.
RECURSIVE StationsLoop(_, _, _, _)
StationsLoop(rows, pricesByStation, i, logged) ==
  IF i > Len(rows)
  THEN [pc |-> "responded", rows |-> rows, logged |-> logged, status |-> 200, body |-> rows]
  ELSE LET st == WithPrices(rows[i],
                   Normalized(StationPrices(pricesByStation, Num(rows[i].id))))
       IN StationsLoop([rows EXCEPT ![i] = st], pricesByStation, i + 1,
                       IF NeedsGeocode(st) THEN Append(logged, st.id) ELSE logged)

\* SELECT ... FROM stations ORDER BY id ASC
StationsById == [i \in StationIds |-> stations[i]]

\* the first query settles with the stations
StationsLoaded ==
  /\ list.pc = "idle"
  /\ list' = [list EXCEPT !.pc = "prices", !.rows = StationsById]
  /\ UNCHANGED <<priceTable, canon>>
  /\ UNCHANGED <<geoVars, submitVars>>

\* a query rejects: the handler's catch answers 500
ListQueryFails ==
  /\ list.pc \in {"idle", "prices"}
  /\ list' = [list EXCEPT !.pc = "responded", !.status = 500]
  /\ UNCHANGED <<priceTable, canon>>
  /\ UNCHANGED <<geoVars, submitVars>>

\* the DISTINCT ON query settles: pricesByStation is built, the loop over the
\* stations runs to its end and the handler answers 200 with the stations
PricesLoaded ==
  /\ list.pc = "prices"
  /\ list' = StationsLoop(list.rows, PricesByStation(PriceRows(priceTable)), 1, <<>>)
  /\ UNCHANGED <<priceTable, canon>>
  /\ UNCHANGED <<geoVars, submitVars>>

ListNext ==
  \/ StationsLoaded
  \/ ListQueryFails
  \/ PricesLoaded

-----------------------------------------------------------------------------
(* The grade mapping on its own *)

MaxLabelLen == 2

LabelChars == {" ", "8", "7", "D", "d"}

\* the labels tried: the table's keys in lower, upper and mixed case, labels
\* with blanks around them, custom labels, and every short text over LabelChars
Labels ==
  { L87, L89, L93, LDiesel, LD, LRegular, LUnleaded, LMidgrade, LPremium, LSupreme,
    <<"R", "e", "g", "u", "l", "a", "r">>, <<"D", "I", "E", "S", "E", "L">>,
    <<"P", "R", "E", "M", "I", "U", "M">>, <<"S", "u", "p", "r", "e", "m", "e">>,
    <<"M", "i", "d", "G", "r", "a", "d", "e">>, <<"U", "N", "L", "E", "A", "D", "E", "D">>,
    <<"E", "8", "5">>, <<"e", "8", "5">>, <<" ", "8", "7", " ">>, <<"9", "1">>,
    <<"0", "8", "7">> }
  \cup UNION { [1..n -> LabelChars] : n \in 0..MaxLabelLen }

IdleCanon == [phase |-> "idle", label |-> <<>>, once |-> <<>>, twice |-> <<>>]

CanonIdle == canon = IdleCanon

\* the mapping is applied to the label
MapOnce ==
  /\ canon.phase = "label"
  /\ canon' = [canon EXCEPT !.phase = "once", !.once = normalizedKey(canon.label)]
  /\ UNCHANGED <<geoVars, submitVars, listVars>>

\* the mapping is applied to its own result
MapTwice ==
  /\ canon.phase = "once"
  /\ canon' = [canon EXCEPT !.phase = "twice", !.twice = normalizedKey(canon.once)]
  /\ UNCHANGED <<geoVars, submitVars, listVars>>

CanonNext ==
  \/ MapOnce
  \/ MapTwice

-----------------------------------------------------------------------------
(* GET /api/stations of routes/stations.ts *)

\* ORDER BY is_home DESC, name ASC: a may stand before b. is_home is true,
\* false or NULL (StationRow: boolean | null), and DESC is NULLS FIRST unless
\* told otherwise: NULL, then true, then false
ListingOrder(a, b) ==
  LET HomeRank(flag) == IF flag = NULL THEN 0 ELSE IF flag = Bool(TRUE) THEN 1 ELSE 2
  IN \/ HomeRank(a.is_home) < HomeRank(b.is_home)
     \/ a.is_home = b.is_home /\ a.name <= b.name

\* the results of SELECT ... FROM stations ORDER BY is_home DESC, name ASC
SelectStations ==
  { [i \in StationIds |-> stations[p[i]]] :
      p \in { q \in [StationIds -> StationIds] :
                /\ \A i, j \in StationIds : i # j => q[i] # q[j]
                /\ \A i, j \in StationIds :
                     i < j => ListingOrder(stations[q[i]], stations[q[j]]) } }

IdleReq == [pc |-> "idle", rows |-> <<>>, tasks |-> <<>>, status |-> 0, body |-> <<>>]

\* the stations table with names nm, home flags hm, addresses ad, coordinates co
StationsTable(nm, hm, ad, co) ==
  [i \in StationIds |->
     [id |-> i, name |-> nm[i], is_home |-> hm[i],
      address |-> ad[i][1], city |-> ad[i][2], state |-> ad[i][3],
      latitude |-> co[i][1], longitude |-> co[i][2]]]

\* names descending by id, the last station flagged home: the listing order is
\* the reverse of the id order
ReversedNames == [i \in StationIds |-> NStations + 1 - i]
LastIsHome == [i \in StationIds |-> Bool(i = NStations)]

\* any addresses and coordinates, one layout of names and home flags
GeoInit ==
  /\ \E ad \in [StationIds -> AddrShapes], co \in [StationIds -> CoordShapes] :
       stations = StationsTable(ReversedNames, LastIsHome, ad, co)
  /\ apiKey \in BOOLEAN
  /\ impl \in {"v1", "v2"}
  /\ req = [r \in Requests |-> IdleReq]
  /\ lookups = [i \in StationIds |-> 0]
  /\ writes = [i \in StationIds |-> 0]
  /\ SubmitIdle
  /\ ListIdle
  /\ CanonIdle

\* requests are numbered in the order they arrive
StartsNext(r) == IF r = 1 THEN TRUE ELSE req[r - 1].pc # "idle"

\* the handler up to Promise.all: the SELECT, then rows.map(ensureStationCoords),
\* each call running to its first external await
StartListing(r) ==
  /\ req[r].pc = "idle"
  /\ StartsNext(r)
  /\ \E rows \in SelectStations :
       LET tasks == [i \in StationIds |-> EnsureBegin(rows[i])]
       IN /\ req' = [req EXCEPT ![r] = [pc |-> "running", rows |-> rows,
                                        tasks |-> tasks, status |-> 0, body |-> <<>>]]
          /\ lookups' = [s \in StationIds |->
                           IF \E i \in StationIds :
                                rows[i].id = s /\ tasks[i].pc = "fetching"
                           THEN lookups[s] + 1 ELSE lookups[s]]
  /\ UNCHANGED <<stations, apiKey, impl, writes>>
  /\ UNCHANGED <<submitVars, listVars, canon>>

\* the SELECT rejects: the handler's catch answers 500
ListingQueryFails(r) ==
  /\ req[r].pc = "idle"
  /\ StartsNext(r)
  /\ req' = [req EXCEPT ![r] = [pc |-> "responded", rows |-> <<>>, tasks |-> <<>>,
                                status |-> 500, body |-> <<>>]]
  /\ UNCHANGED <<stations, apiKey, impl, lookups, writes>>
  /\ UNCHANGED <<submitVars, listVars, canon>>

\* fetch(url) of task i of request r settles: it rejects (net is false), or
\* resolves with a response whose res.ok is ok
FetchSettles(r, i, net, ok) ==
  /\ req[r].pc = "running"
  /\ req[r].tasks[i].pc = "fetching"
  /\ req' = [req EXCEPT ![r].tasks[i] = EnsureAfterFetch(req[r].rows[i], net, ok)]
  /\ UNCHANGED <<stations, apiKey, impl, lookups, writes>>
  /\ UNCHANGED <<submitVars, listVars, canon>>

\* the body of the response of task i of request r settles (res.json(), or
\* res.text() of a response that is not ok) as that of resp
BodySettles(r, i, resp) ==
  /\ req[r].pc = "running"
  /\ req[r].tasks[i].pc = "reading"
  /\ resp.net
  /\ resp.ok = req[r].tasks[i].ok
  /\ req' = [req EXCEPT ![r].tasks[i] = EnsureAfterBody(req[r].rows[i], resp)]
  /\ UNCHANGED <<stations, apiKey, impl, lookups, writes>>
  /\ UNCHANGED <<submitVars, listVars, canon>>

\* db.query(UPDATE ...) of task i of request r settles
WriteSettles(r, i, ok) ==
  /\ req[r].pc = "running"
  /\ req[r].tasks[i].pc = "writing"
  /\ LET st == req[r].rows[i]
         coords == req[r].tasks[i].coords
     IN /\ req' = [req EXCEPT ![r].tasks[i] = EnsureAfterWrite(st, coords, ok)]
        /\ stations' = IF ok THEN UpdateCoords(stations, st.id, coords) ELSE stations
        /\ writes' = IF ok THEN [writes EXCEPT ![st.id] = @ + 1] ELSE writes
  /\ UNCHANGED <<apiKey, impl, lookups>>
  /\ UNCHANGED <<submitVars, listVars, canon>>

\* Promise.all settles: res.json(withCoords), or the catch's 500 when a task rejected
Respond(r) ==
  /\ req[r].pc = "running"
  /\ \A i \in StationIds : req[r].tasks[i].pc \in {"returned", "rejected"}
  /\ req' = IF \E i \in StationIds : req[r].tasks[i].pc = "rejected"
            THEN [req EXCEPT ![r].pc = "responded", ![r].status = 500]
            ELSE [req EXCEPT ![r].pc = "responded", ![r].status = 200,
                             ![r].body = [i \in StationIds |-> req[r].tasks[i].out]]
  /\ UNCHANGED <<stations, apiKey, impl, lookups, writes>>
  /\ UNCHANGED <<submitVars, listVars, canon>>

GeoNext ==
  \/ \E r \in Requests : StartListing(r)
  \/ \E r \in Requests : ListingQueryFails(r)
  \/ \E r \in Requests, i \in StationIds, net \in BOOLEAN, ok \in BOOLEAN :
       FetchSettles(r, i, net, ok)
  \/ \E r \in Requests, i \in StationIds, resp \in Responses : BodySettles(r, i, resp)
  \/ \E r \in Requests, i \in StationIds, ok \in BOOLEAN : WriteSettles(r, i, ok)
  \/ \E r \in Requests : Respond(r)

Init == GeoInit

Next == GeoNext

Spec == Init /\ [][Next]_vars

\* any names, no two stations sharing one, and any home flags (true, false or
\* NULL); every station has an address, and either all stations have both
\* coordinates or none has any
OrderInit ==
  /\ \E nm \in { f \in [StationIds -> Names] : \A i, j \in StationIds : i # j => f[i] # f[j] },
        hm \in [StationIds -> {Bool(TRUE), Bool(FALSE), NULL}],
        c \in {<<NULL, NULL>>, <<Num(10), Num(20)>>} :
       stations = StationsTable(nm, hm,
                    [i \in StationIds |-> <<Str("1 Main St"), Str("Springfield"), Str("IL")>>],
                    [i \in StationIds |-> c])
  /\ apiKey = TRUE
  /\ impl \in {"v1", "v2"}
  /\ req = [r \in Requests |-> IdleReq]
  /\ lookups = [i \in StationIds |-> 0]
  /\ writes = [i \in StationIds |-> 0]
  /\ SubmitIdle
  /\ ListIdle
  /\ CanonIdle

SpecOrder == OrderInit /\ [][Next]_vars

\* no listing traffic: an empty, idle listing side
GeoIdle ==
  /\ stations = [i \in StationIds |-> [NoRow EXCEPT !.id = i]]
  /\ apiKey = FALSE
  /\ impl = "v1"
  /\ req = [r \in Requests |-> IdleReq]
  /\ lookups = [i \in StationIds |-> 0]
  /\ writes = [i \in StationIds |-> 0]

SubmitInit == GeoIdle /\ SubmitIdle /\ ListIdle /\ CanonIdle

SpecSubmit == SubmitInit /\ [][SubmitNext]_vars

\* the listing of src/stations.ts over any price table: station 1 has an
\* address and no coordinates, station 2 has a latitude and half an address
PricesInit ==
  /\ stations = StationsTable([i \in StationIds |-> i], [i \in StationIds |-> Bool(FALSE)],
                   [i \in StationIds |->
                      IF i = 1 THEN <<Str("1 Main St"), Str("Springfield"), Str("IL")>>
                      ELSE <<NULL, Str("Springfield"), Str("IL")>>],
                   [i \in StationIds |->
                      IF i = 1 THEN <<NULL, NULL>> ELSE <<Num(10), NULL>>])
  /\ apiKey = TRUE
  /\ impl = "v1"
  /\ req = [r \in Requests |-> IdleReq]
  /\ lookups = [i \in StationIds |-> 0]
  /\ writes = [i \in StationIds |-> 0]
  /\ SubmitIdle
  /\ priceTable \in PriceTables(MaxSubs)
  /\ list = IdleList
  /\ CanonIdle

SpecPrices == PricesInit /\ [][ListNext]_vars

\* a label to map
CanonInit ==
  /\ GeoIdle
  /\ SubmitIdle
  /\ ListIdle
  /\ \E label \in Labels : canon = [IdleCanon EXCEPT !.phase = "label", !.label = label]

SpecCanon == CanonInit /\ [][CanonNext]_vars

-----------------------------------------------------------------------------
(* POST /api/price-submissions over the station identifiers *)

\* body.station_id: absent, null, a number, numeric strings, empty, blank and
\* non-numeric strings
StationIdShapes ==
  { UNDEF, NULL, Num16(7 * Sixteenth), Str(<<"7">>), Str(<<" ", "4", "2">>),
    Str(<<>>), Str(<<" ">>), Str(<<"x">>), Str(<<"7", "x">>), Str(<<"0", "x", "7">>),
    Str(<<"7", "e", "0">>) }

\* single-grade bodies and bodies with one or two entries, usable or not, under
\* every station identifier
StationPayloads ==
  { Body(sid, g, UNDEF, pr, subs) :
      sid \in StationIdShapes, g \in BodyGrades, pr \in {UNDEF, Num16(2)},
      subs \in { UNDEF,
                 Array(<<Entry(Str(Chars87), UNDEF, Num16(1))>>),
                 Array(<<Entry(UNDEF, Num16(4799 * Sixteenth), UNDEF),
                         Entry(Str(Chars87), UNDEF, Num16(1))>>) } }

StationNext ==
  \/ \E body \in StationPayloads \cup NamedPayloads : PostArrives(body)
  \/ InsertSettles
  \/ InsertFails

SpecStation == SubmitInit /\ [][StationNext]_vars

SpecTable == SubmitInit /\ [][TableNext]_vars

-----------------------------------------------------------------------------
(* Claims about the geocode cache-filler and the listing *)

Started(r) == req[r].pc # "idle" /\ Len(req[r].rows) > 0

\* no lookup and no write-back has failed so far: every call that got past its
\* lookup holds the service's location, and no UPDATE was rejected
NoFault ==
  \A r \in Requests : Started(r) =>
    \A i \in StationIds :
      LET t == req[r].tasks[i]
      IN t.called /\ t.pc \notin {"fetching", "reading"} =>
           /\ t.coords = Coords(Located(req[r].rows[i].id).lat, Located(req[r].rows[i].id).lng)
           /\ t.wrote # "failed"

\* C2: as long as lookups and write-backs succeed, whatever the interleaving of
\* listing requests, each station is looked up at most once and its coordinates
\* are persisted at most once, and a request that reads stored coordinates makes
\* no lookup for that station.
C2_LookupOncePerStation ==
  NoFault =>
    /\ \A s \in StationIds : lookups[s] <= 1 /\ writes[s] <= 1
    /\ \A r \in Requests : Started(r) =>
         \A i \in StationIds : HasCoords(req[r].rows[i]) => ~req[r].tasks[i].called

\* C3: a call whose lookup succeeded and whose write-back failed returns the
\* station with latitude/longitude set to the looked-up values, and its request
\* is answered with success.
C3_WriteFailureStillEnriches ==
  \A r \in Requests : Started(r) =>
    \A i \in StationIds :
      LET t == req[r].tasks[i]
          st == req[r].rows[i]
          loc == Located(st.id)
      IN t.pc = "returned" /\ t.wrote = "failed" /\ t.coords = Coords(loc.lat, loc.lng) =>
           /\ t.out = [st EXCEPT !.latitude = loc.lat, !.longitude = loc.lng]
           /\ req[r].pc = "responded" => req[r].status = 200

\* C4: when the lookup yields no usable result (no credential, or any response
\* other than an OK one carrying a location with lat and lng), the call returns
\* its input station unchanged, issues no UPDATE and raises nothing, and the
\* request is answered with success.
C4_UnusableLookupSkips ==
  [][ /\ \A r \in Requests, i \in StationIds, ok \in BOOLEAN :
          FetchSettles(r, i, FALSE, ok) =>
            /\ req'[r].tasks[i].pc = "returned"
            /\ req'[r].tasks[i].out = req[r].rows[i]
            /\ req'[r].tasks[i].wrote = NONE
      /\ \A r \in Requests, i \in StationIds, resp \in Responses \ {GoodResponse} :
          BodySettles(r, i, resp) =>
            /\ req'[r].tasks[i].pc = "returned"
            /\ req'[r].tasks[i].out = req[r].rows[i]
            /\ req'[r].tasks[i].wrote = NONE
      /\ \A r \in Requests :
          StartListing(r) /\ ~apiKey =>
            \A i \in StationIds :
              /\ req'[r].tasks[i].pc = "returned"
              /\ req'[r].tasks[i].out = req'[r].rows[i]
              /\ ~req'[r].tasks[i].called
      /\ \A r \in Requests : Respond(r) => req'[r].status = 200 ]_vars

\* some address part is there (not null, not empty)
SomeAddressPart(st) ==
  \E x \in {st.address, st.city, st.state} : x # NULL /\ x # Str("")

\* C5: the external lookup is invoked only for a station that lacks a latitude
\* or a longitude and has some address part; a station with both coordinates,
\* or with no address part, is returned unchanged with no lookup and no UPDATE.
C5_LookupOnlyWhenNeeded ==
  \A r \in Requests : Started(r) =>
    \A i \in StationIds :
      LET t == req[r].tasks[i]
          st == req[r].rows[i]
          both == st.latitude # NULL /\ st.longitude # NULL
      IN /\ t.called => ~both /\ SomeAddressPart(st)
         /\ both \/ ~SomeAddressPart(st) =>
              /\ ~t.called
              /\ t.pc = "returned"
              /\ t.out = st
              /\ t.wrote = NONE

\* C5 witness: the first request looked one station up and stored its
\* coordinates, and returned a station without address parts as it was; the
\* second request found the stored coordinates and made no call for it
C5_Witness ==
  /\ Started(1)
  /\ Started(2)
  /\ \E i, j, k \in StationIds :
       /\ req[1].tasks[i].called
       /\ req[1].tasks[i].wrote = "ok"
       /\ ~SomeAddressPart(req[1].rows[j])
       /\ req[1].rows[j].latitude = NULL
       /\ ~req[1].tasks[j].called
       /\ req[1].tasks[j].out = req[1].rows[j]
       /\ req[2].rows[k].id = req[1].rows[i].id
       /\ req[2].rows[k].latitude # NULL
       /\ req[2].rows[k].longitude # NULL
       /\ ~req[2].tasks[k].called
       /\ req[2].tasks[k].out = req[2].rows[k]

\* C9: a successful listing holds every station once, the home-flagged ones
\* (is_home true) first, and within the flagged and within the others (is_home
\* false or NULL) by ascending name, in the order of the query's rows whatever
\* order the calls completed in.
C9_HomeFirstThenByName ==
  \A r \in Requests : req[r].pc = "responded" /\ req[r].status = 200 =>
    LET b == req[r].body
    IN /\ Len(b) = NStations
       /\ \A s \in StationIds : \E i \in 1..Len(b) : b[i].id = s
       /\ \A i \in 1..Len(b) : b[i].id = req[r].rows[i].id
       /\ \A i, j \in 1..Len(b) : i < j =>
            /\ b[j].is_home = Bool(TRUE) => b[i].is_home = Bool(TRUE)
            /\ (b[i].is_home = Bool(TRUE)) = (b[j].is_home = Bool(TRUE))
                 => b[i].name <= b[j].name

-----------------------------------------------------------------------------
(* Claims about the submission normaliser and endpoint *)

\* the entry's own grade, or the payload-level default
GradeOf(sub, body) == IF sub.grade \in {NULL, UNDEF} THEN body.grade ELSE sub.grade

\* a usable grade: a number, or a string with a character that is not whitespace
HasUsableGrade(sub, body) ==
  LET g == GradeOf(sub, body)
  IN /\ g \notin {NULL, UNDEF}
     /\ IsString(g) => \E k \in 1..Len(g[2]) : g[2][k] \notin Whitespace

\* a usable price: the mills field when it is a number, else the dollars field,
\* is a finite number
HasUsablePrice(sub) ==
  IF IsNumber(sub.price_cents) THEN IsFiniteNumber(sub.price_cents)
  ELSE IsFiniteNumber(sub.price)

Usable(sub, body) == ~sub.null /\ HasUsableGrade(sub, body) /\ HasUsablePrice(sub)

UsableEntries(body) ==
  SelectSeq(body.submissions[2], LAMBDA sub : Usable(sub, body))

\* the handler has normalised a payload with a non-empty array
MultiGradeHandled ==
  post.pc # "idle" /\ HasSubmissions(post.body) /\ ~normaliseBodyThrows(post.body)

\* m mills is dollars x 1000 rounded to the nearest integer, ties toward
\* +infinity: m - 1/2 <= n/16 x 1000 < m + 1/2
NearestTiesUp(m, n) ==
  /\ Sixteenth * (2 * m - 1) <= 2 * MillsPerDollar * n
  /\ 2 * MillsPerDollar * n < Sixteenth * (2 * m + 1)

\* m mills is dollars x 1000 rounded to the nearest integer, ties away from zero
NearestTiesAway(m, n) ==
  IF n >= 0 THEN NearestTiesUp(m, n)
  ELSE /\ Sixteenth * (2 * m - 1) < 2 * MillsPerDollar * n
       /\ 2 * MillsPerDollar * n <= Sixteenth * (2 * m + 1)

\* the stored mills are a whole number
WholeMills(pm) == IsFiniteNumber(pm) /\ pm[2] % Sixteenth = 0

\* C6 as stated: the stored mills of every usable entry are the mills field
\* verbatim when it is a number, and otherwise dollars x 1000 rounded to the
\* nearest integer with ties away from zero.
C6_RoundsHalfAwayFromZero ==
  MultiGradeHandled =>
    LET us == UsableEntries(post.body)
    IN /\ Len(post.rows) = Len(us)
       /\ \A k \in 1..Len(us) :
            LET pm == post.rows[k].priceMills
            IN IF IsNumber(us[k].price_cents) THEN pm = us[k].price_cents
               ELSE WholeMills(pm) /\ NearestTiesAway(pm[2] \div Sixteenth, us[k].price[2])

\* the payload with entry j of its array left out
WithoutEntry(body, j) ==
  LET subs == body.submissions[2]
  IN [body EXCEPT !.submissions =
        Array(SubSeq(subs, 1, j - 1) \o SubSeq(subs, j + 1, Len(subs)))]

\* the payload with entry j of its array replaced by sub
WithEntry(body, j, sub) ==
  [body EXCEPT !.submissions = Array([body.submissions[2] EXCEPT ![j] = sub])]

\* the payload with sub as its only entry
OnlyEntry(body, sub) == [body EXCEPT !.submissions = Array(<<sub>>)]

\* C7: for a payload with a non-empty array the rows are, in order, one row per
\* usable entry, each the row its entry yields on its own; leaving out an
\* unusable entry, or replacing it by another unusable one, changes no row.
C7_RowsAreTheUsableEntries ==
  MultiGradeHandled =>
    LET body == post.body
        subs == body.submissions[2]
        us == UsableEntries(body)
    IN /\ Len(post.rows) = Len(us)
       /\ \A k \in 1..Len(us) :
            /\ <<post.rows[k]>> = normaliseBody(OnlyEntry(body, us[k]))
            /\ post.rows[k].grade # <<>>
            /\ IsFiniteNumber(post.rows[k].priceMills)
       /\ \A j \in 1..Len(subs) :
            ~Usable(subs[j], body) =>
              /\ Len(subs) > 1 => normaliseBody(WithoutEntry(body, j)) = post.rows
              /\ \A sub \in Entries :
                   ~Usable(sub, body) => normaliseBody(WithEntry(body, j, sub)) = post.rows

\* C7 witness: an unusable entry (a grade, and NaN in the mills field) stands
\* before a usable one, and the only row is the usable entry's
C7_Witness ==
  /\ MultiGradeHandled
  /\ Len(post.body.submissions[2]) = 2
  /\ post.body.submissions[2][1] = Entry(Str(Chars87), NaN, Num16(2))
  /\ Usable(post.body.submissions[2][2], post.body)
  /\ Len(post.rows) = 1
  /\ post.rows[1].grade = <<"8", "7">>

\* the rows of subTable that hold the ids
InsertedRows(ids) == [k \in 1..Len(ids) |-> subTable[ids[k]]]

\* the rows of subTable written by the submission endpoint: those with a grade
SubmissionIds == { j \in 1..Len(subTable) : subTable[j].grade # NULL }

\* C8: the endpoint inserts one row per row of the normaliser, in order, and
\* no other row with a grade is in the table; it answers { id } after inserting
\* exactly one row, { ids } with every inserted id after more than one, and a
\* client error without any insert when the normaliser returns no rows.
C8_OneInsertPerRow ==
  ~normaliseBodyThrows(post.body) =>
    LET rows == normaliseBody(post.body)
        inserted == InsertedRows(post.ids)
    IN /\ post.pc # "idle" =>
            /\ Len(post.ids) <= Len(rows)
            /\ SubmissionIds = { post.ids[k] : k \in 1..Len(post.ids) }
            /\ \A k \in 1..Len(post.ids) :
                 /\ k > 1 => post.ids[k - 1] < post.ids[k]
                 /\ inserted[k] =
                      Inserted(post.ids[k], Coalesce(rows[k].stationId, NULL),
                               rows[k].stationName, rows[k].stationAddress, rows[k].grade,
                               rows[k].priceMills, rows[k].notes, rows[k].submitterName)
       /\ post.pc = "responded" /\ post.status # 500 =>
            /\ Len(post.ids) = Len(rows)
            /\ Len(rows) = 0 => post.status = 400 /\ SubmissionIds = {}
            /\ Len(rows) = 1 => post.status = 201 /\ post.reply = <<"id", post.ids[1]>>
            /\ Len(rows) > 1 => post.status = 201 /\ post.reply = <<"ids", post.ids>>

\* C8 witness: a payload of two usable entries answered 201 with both ids,
\* a station suggestion having been inserted between its two rows
C8_Witness ==
  /\ post.pc = "responded"
  /\ post.status = 201
  /\ Len(normaliseBody(post.body)) = 2
  /\ post.reply = <<"ids", <<1, 3>>>>
  /\ suggest.id = 2
  /\ Len(subTable) = 3

-----------------------------------------------------------------------------
(* Claims about the price aggregation and the grade mapping *)

\* the approved rows of station sid whose raw grade maps to bucket g
Candidates(sid, g) ==
  { r \in { priceTable[k] : k \in 1..Len(priceTable) } :
      Approved(r) /\ r.station_id = Num(sid) /\ normalizedKey(r.grade[2]) = g }

\* the candidate reviewed last (un-reviewed counting as oldest), the one
\* created last among those reviewed at the same time
Latest(rows) == CHOOSE r \in rows : \A o \in rows : o # r => NewerThan(r, o)

Buckets == { normalizedKey(g) : g \in RawGrades }

Listed == list.pc = "responded" /\ list.status = 200

\* C1: in a listing, for every station and every canonical grade, prices_cents
\* holds the price of the approved row (station, grade and price not null)
\* reviewed last among all approved rows of the station whose raw grade maps to
\* that grade, and holds nothing for a grade without such a row; pending and
\* rejected rows do not contribute.
C1_LatestApprovedPerCanonicalGrade ==
  Listed =>
    \A i \in 1..Len(list.body) :
      LET prices == list.body[i].prices_cents
      IN /\ \A k \in 1..Len(prices) : prices[k][1] \in Buckets
         /\ \A a, b \in 1..Len(prices) : a # b => prices[a][1] # prices[b][1]
         /\ \A g \in Buckets :
              LET rows == Candidates(list.body[i].id, g)
              IN IF rows = {} THEN ~HasKey(prices, g)
                 ELSE HasKey(prices, g) /\ Get(prices, g) = Latest(rows).price_cents

\* C10: the grade mapping is idempotent and total: mapping a result again
\* returns it unchanged, every label has a result, and each of "87", "89",
\* "93" and "diesel" maps to itself.
C10_MappingIsIdempotent ==
  /\ canon.phase \in {"once", "twice"} =>
       /\ canon.once \in Seq({ Alphabet[k] : k \in 1..Len(Alphabet) })
       /\ canon.label \in {L87, L89, L93, LDiesel} => canon.once = canon.label
  /\ canon.phase = "twice" => canon.twice = canon.once

\* a label in another case than its bucket, and a custom label with capitals,
\* mapped twice
C10_Witness ==
  /\ canon.phase = "twice"
  /\ canon.label \in { <<"D", "I", "E", "S", "E", "L">>, <<"E", "8", "5">> }
  /\ canon.once # canon.label

-----------------------------------------------------------------------------
(* Claims about the stored coordinates *)

\* the UPDATE of a call for station s, whose lookup gave coordinates, succeeds
\* in this step
WrittenAfterLookup(s) ==
  \E r \in Requests, i \in StationIds :
    /\ req[r].pc = "running"
    /\ req[r].tasks[i].pc = "writing"
    /\ req[r].rows[i].id = s
    /\ req[r].tasks[i].coords.kind = "coords"
    /\ req'[r].tasks[i].wrote = "ok"

\* C11: a station's stored coordinates only move from null to non-null: no
\* step sets a stored latitude or longitude back to null, and a stations row
\* changes only by the successful write-back of a lookup made for that station
\* id, which leaves both coordinates non-null and every other field as it was.
C11_CoordinatesOnlyResolve ==
  [][ \A s \in StationIds :
        /\ stations[s].latitude # NULL => stations'[s].latitude # NULL
        /\ stations[s].longitude # NULL => stations'[s].longitude # NULL
        /\ stations'[s] # stations[s] =>
             /\ WrittenAfterLookup(s)
             /\ stations'[s].latitude # NULL
             /\ stations'[s].longitude # NULL
             /\ stations'[s] = [stations[s] EXCEPT !.latitude = stations'[s].latitude,
                                                   !.longitude = stations'[s].longitude]
    ]_vars

-----------------------------------------------------------------------------
(* Claims about the station reference of the rows *)

\* the identifier is a string of decimal digits, blanks around them aside
NumericString(raw) ==
  /\ IsString(raw)
  /\ Trim(raw[2]) # <<>>
  /\ \A k \in 1..Len(Trim(raw[2])) : Trim(raw[2])[k] \in DigitChars

\* an integer id
IntegerId(ref) == IsFiniteNumber(ref) /\ ref[2] % Sixteenth = 0

\* C12: every row the normalizer produces refers to the given number when the
\* payload's station identifier is a number or a numeric string, and to no
\* station (null) when the identifier is absent, an empty or blank string or a
\* non-numeric string; the reference is always an integer id or null.
C12_StationReferenceResolved ==
  post.pc # "idle" =>
    \A k \in 1..Len(post.rows) :
      LET raw == StationIdRaw(post.body)
          ref == post.rows[k].stationId
      IN /\ IsFiniteNumber(raw) => ref = raw
         /\ NumericString(raw) => ref = Num16(Sixteenth * RadixValue(Trim(raw[2]), 10))
         /\ ~IsFiniteNumber(raw) /\ ~NumericString(raw) => ref = NULL
         /\ ref = NULL \/ IntegerId(ref)

-----------------------------------------------------------------------------
(* Claims about the rows written *)

\* C13: every price_submissions row the submission endpoint has written, for a
\* payload of either shape, holds a price that is a finite non-negative whole
\* number of mills and a grade that is a non-empty string with no blanks at
\* its ends.
C13_WrittenRowsAreValid ==
  \A k \in 1..Len(post.ids) :
    LET row == subTable[post.ids[k]]
    IN /\ IsFiniteNumber(row.price_cents)
       /\ row.price_cents[2] % Sixteenth = 0
       /\ row.price_cents[2] >= 0
       /\ row.grade # <<>>
       /\ Trim(row.grade) = row.grade

====
